---- MODULE Spec2Model ----
(***************************************************************************)
(* State-machine model of the question board component (function App):     *)
(* the startup load, the filter/sort effect, the progress handlers         *)
(* (toggleQuestion, resetProgress, downloadProgress, importProgress) and   *)
(* the localStorage slot 'completedQuestions'.                             *)
(*                                                                         *)
(* JavaScript values are tagged strings: "true", "false", "1" (a truthy    *)
(* number), "0" (a falsy number) and "undefined" (a property miss).        *)
(* A JSON text is a record [kind, pairs, indent]: kind "object" carries    *)
(* the members in textual order, "null" is the literal null, "invalid" is  *)
(* text JSON.parse rejects and "absent" is no text at all (getItem's null, *)
(* no file).  A parsed value is [kind, pairs] with unique keys in          *)
(* insertion order.                                                        *)
(***************************************************************************)
EXTENDS Integers, Sequences, FiniteSets, TLC

VARIABLES
    data,               \* results.data: the rows Papa.parse yields for the CSV
    loadState,          \* position of the load effect and its callbacks
    fetchCount,         \* fetches issued since the application started
    parseCount,         \* parse passes (complete callbacks) since the start
    questions,          \* useState: the full record set
    filteredQuestions,  \* useState: the displayed record set
    searchTerm,         \* useState
    difficultyFilter,   \* useState
    sortConfig,         \* useState: [key, direction]
    effectPending,      \* the filter/sort effect is scheduled (a dependency changed)
    storage,            \* localStorage slot 'completedQuestions' (a JSON text)
    readers,            \* FileReaders whose onload has not fired yet
    download,           \* the file last offered as progress.json
    alertMsg,           \* the open alert dialog ("" when none)
    last                \* the handler that ran last: [op, arg, twice], twice when
                        \* it is a toggle of the title the handler before it toggled

vars == <<data, loadState, fetchCount, parseCount, questions, filteredQuestions,
          searchTerm, difficultyFilter, sortConfig, effectPending, storage,
          readers, download, alertMsg, last>>

----------------------------------------------------------------------------
(* Bounds *)

\* FileReaders that may be in flight at once
MaxReaders == 1

----------------------------------------------------------------------------
(* JavaScript values *)

JTrue == "true"
JFalse == "false"
JOne == "1"
JZero == "0"
Undefined == "undefined"

\* ToBoolean
Truthy(v) == v \in {JTrue, JOne}

\* !v
Not(v) == IF Truthy(v) THEN JFalse ELSE JTrue

\* v || false
OrFalse(v) == IF Truthy(v) THEN v ELSE JFalse

----------------------------------------------------------------------------
(* Objects: sequences of <<key, value>> with unique keys, insertion order *)

EmptyObject == << >>

Keys(obj) == {obj[i][1] : i \in DOMAIN obj}

\* obj[k]
Get(obj, k) ==
    IF k \in Keys(obj)
    THEN LET i == CHOOSE j \in DOMAIN obj : obj[j][1] = k IN obj[i][2]
    ELSE Undefined

\* {...obj, [k]: v}
Put(obj, k, v) ==
    IF k \in Keys(obj)
    THEN [i \in DOMAIN obj |-> IF obj[i][1] = k THEN <<k, v>> ELSE obj[i]]
    ELSE Append(obj, <<k, v>>)

RECURSIVE FromPairs(_)
\* the object a member list denotes: a repeated key keeps its first place and
\* its last value
FromPairs(pairs) ==
    IF pairs = << >> THEN EmptyObject
    ELSE LET n == Len(pairs)
         IN Put(FromPairs(SubSeq(pairs, 1, n - 1)), pairs[n][1], pairs[n][2])

----------------------------------------------------------------------------
(* JSON texts and parsed values *)

Absent == [kind |-> "absent", pairs |-> << >>, indent |-> 0]
EmptyObjectText == [kind |-> "object", pairs |-> << >>, indent |-> 0]

\* JSON.parse(text): ok = FALSE is the SyntaxError
JSONParse(text) ==
    CASE text.kind = "object" ->
            [ok |-> TRUE, kind |-> "object", pairs |-> FromPairs(text.pairs)]
      [] text.kind = "null" ->
            [ok |-> TRUE, kind |-> "null", pairs |-> << >>]
      [] OTHER ->
            [ok |-> FALSE, kind |-> "error", pairs |-> << >>]

\* JSON.stringify(value, null, indent): members whose value is undefined are dropped
JSONStringify(value, indent) ==
    IF value.kind = "null"
    THEN [kind |-> "null", pairs |-> << >>, indent |-> 0]
    ELSE [kind |-> "object",
          pairs |-> SelectSeq(value.pairs, LAMBDA p : p[2] # Undefined),
          indent |-> IF value.pairs = << >> THEN 0 ELSE indent]

ObjectValue(obj) == [ok |-> TRUE, kind |-> "object", pairs |-> obj]

\* value[k] raises a TypeError when value is null
IndexThrows(value) == value.kind = "null"
Index(value, k) == Get(value.pairs, k)

----------------------------------------------------------------------------
(* Strings.  A string value is a TLA+ string; Chars gives its characters,  *)
(* from which the string functions the component calls are computed.       *)

Chars(s) ==
    CASE s = "" -> << >>
      [] s = "Two Sum" -> <<"T", "w", "o", " ", "S", "u", "m">>
      [] s = "Merge K Lists" ->
            <<"M", "e", "r", "g", "e", " ", "K", " ", "L", "i", "s", "t", "s">>
      [] s = "Array" -> <<"A", "r", "r", "a", "y">>
      [] s = "Heap" -> <<"H", "e", "a", "p">>
      [] s = "Easy" -> <<"E", "a", "s", "y">>
      [] s = "Medium" -> <<"M", "e", "d", "i", "u", "m">>
      [] s = "Hard" -> <<"H", "a", "r", "d">>
      [] s = "hard" -> <<"h", "a", "r", "d">>
      [] s = "all" -> <<"a", "l", "l">>
      [] s = "85.5" -> <<"8", "5", ".", "5">>
      [] s = "42.1" -> <<"4", "2", ".", "1">>
      [] s = "60.0" -> <<"6", "0", ".", "0">>
      [] s = "N/A" -> <<"N", "/", "A">>
      [] s = "sum" -> <<"s", "u", "m">>
      [] s = "ARRAY" -> <<"A", "R", "R", "A", "Y">>

UpperLetters ==
    <<"A", "B", "C", "D", "E", "F", "G", "H", "I", "J", "K", "L", "M",
      "N", "O", "P", "Q", "R", "S", "T", "U", "V", "W", "X", "Y", "Z">>

LowerLetters ==
    <<"a", "b", "c", "d", "e", "f", "g", "h", "i", "j", "k", "l", "m",
      "n", "o", "p", "q", "r", "s", "t", "u", "v", "w", "x", "y", "z">>

Digits == <<"0", "1", "2", "3", "4", "5", "6", "7", "8", "9">>

IndexOf(seq, c) == CHOOSE i \in DOMAIN seq : seq[i] = c

IsIn(seq, c) == \E i \in DOMAIN seq : seq[i] = c

\* String.prototype.toLowerCase, on characters
ToLowerCase(cs) ==
    [i \in DOMAIN cs |->
        IF IsIn(UpperLetters, cs[i])
        THEN LowerLetters[IndexOf(UpperLetters, cs[i])]
        ELSE cs[i]]

RECURSIVE TrimStart(_)
TrimStart(cs) == IF cs # << >> /\ Head(cs) = " " THEN TrimStart(Tail(cs)) ELSE cs

RECURSIVE TrimEnd(_)
TrimEnd(cs) ==
    IF cs # << >> /\ cs[Len(cs)] = " " THEN TrimEnd(SubSeq(cs, 1, Len(cs) - 1)) ELSE cs

\* String.prototype.trim, on characters
Trim(cs) == TrimEnd(TrimStart(cs))

\* String.prototype.includes, on characters
Includes(hay, needle) ==
    \E i \in 1..(Len(hay) - Len(needle) + 1) :
        SubSeq(hay, i, i + Len(needle) - 1) = needle

DigitValue(c) == IndexOf(Digits, c) - 1

RECURSIVE DigitRun(_, _)
\* how many digits cs holds from position i on
DigitRun(cs, i) ==
    IF i <= Len(cs) /\ IsIn(Digits, cs[i]) THEN 1 + DigitRun(cs, i + 1) ELSE 0

RECURSIVE Decimal(_, _, _)
\* the number the digits cs[i..j] write
Decimal(cs, i, j) ==
    IF j < i THEN 0 ELSE 10 * Decimal(cs, i, j - 1) + DigitValue(cs[j])

\* parseFloat: the longest numeric prefix (digits, then "." and digits), NaN when
\* there is none; the value is in tenths
ParseFloat(cs) ==
    LET n == DigitRun(cs, 1)
        hasFrac == n + 1 <= Len(cs) /\ cs[n + 1] = "."
        m == IF hasFrac THEN DigitRun(cs, n + 2) ELSE 0
        tenths == IF m > 0 THEN DigitValue(cs[n + 2]) ELSE 0
    IN IF n = 0 /\ m = 0
       THEN [nan |-> TRUE, val |-> 0]
       ELSE [nan |-> FALSE, val |-> 10 * Decimal(cs, 1, n) + tenths]

\* collation order of the characters the data holds
Collation ==
    <<" ", ",", ".", "/", "0", "1", "2", "3", "4", "5", "6", "7", "8", "9",
      "a", "b", "c", "d", "e", "f", "g", "h", "i", "j", "k", "l", "m",
      "n", "o", "p", "q", "r", "s", "t", "u", "v", "w", "x", "y", "z">>

RECURSIVE LexCompare(_, _)
LexCompare(a, b) ==
    IF a = << >> /\ b = << >> THEN 0
    ELSE IF a = << >> THEN -1
    ELSE IF b = << >> THEN 1
    ELSE LET x == IndexOf(Collation, a[1])
             y == IndexOf(Collation, b[1])
         IN IF x < y THEN -1
            ELSE IF x > y THEN 1
            ELSE LexCompare(Tail(a), Tail(b))

RECURSIVE CaseCompare(_, _)
\* tie-break of strings equal but for case: lower case sorts first
CaseCompare(a, b) ==
    IF a = << >> \/ b = << >> THEN 0
    ELSE IF a[1] = b[1] THEN CaseCompare(Tail(a), Tail(b))
    ELSE IF IsIn(LowerLetters, a[1]) THEN -1 ELSE 1

\* String.prototype.localeCompare (default locale): letters compare without
\* regard to case first, case decides between otherwise equal strings
LocaleCompare(a, b) ==
    LET c == LexCompare(ToLowerCase(a), ToLowerCase(b))
    IN IF c # 0 THEN c ELSE CaseCompare(a, b)

----------------------------------------------------------------------------
(* Records *)

\* a row of results.data (interface Question without completed)
Row(title, difficulty, frequency, topics) ==
    [Title |-> title, Difficulty |-> difficulty, Frequency |-> frequency,
     Link |-> "", AcceptanceRate |-> "", Topics |-> topics]

\* {...q, completed: c}
WithCompleted(q, c) ==
    [Title |-> q.Title, Difficulty |-> q.Difficulty, Frequency |-> q.Frequency,
     Link |-> q.Link, AcceptanceRate |-> q.AcceptanceRate, Topics |-> q.Topics,
     completed |-> c]

\* the CSV resources the model is run on: the two-record dataset, and one with a
\* repeated title and a difficulty in another case
Datasets ==
    { << Row("Two Sum", "Easy", "85.5", "Array"),
         Row("Merge K Lists", "Hard", "42.1", "Heap") >>,
      << Row("Merge K Lists", "hard", "42.1", "Heap"),
         Row("Two Sum", "Easy", "85.5", "Array"),
         Row("Two Sum", "Medium", "60.0", "Array") >> }

Titles(qs) == {qs[i].Title : i \in DOMAIN qs}

SortKeys == {"Title", "Difficulty", "Frequency"}

\* the options of the difficulty select
DifficultyOptions == {"all", "Easy", "Medium", "Hard"}

\* the options the user picks in this model
DifficultyPicks == {"all", "Hard"}

\* the label a difficulty is shown under
getNormalizedDifficulty(difficulty) ==
    IF difficulty = "" THEN ""
    ELSE LET d == ToLowerCase(Trim(Chars(difficulty)))
         IN CASE d = <<"e", "a", "s", "y">> -> "Easy"
              [] d = <<"m", "e", "d", "i", "u", "m">> -> "Medium"
              [] d = <<"h", "a", "r", "d">> -> "Hard"
              [] OTHER -> difficulty

----------------------------------------------------------------------------
(* The filter/sort derivation *)

\* faulty variant: the record's title and topics are not lower-cased
MatchesSearchCaseSensitive(q, term) ==
    \/ Includes(Chars(q.Title), ToLowerCase(Chars(term)))
    \/ Includes(Chars(q.Topics), ToLowerCase(Chars(term)))

\* the search predicate of the filter effect
MatchesSearch(q, term) ==
    \/ Includes(ToLowerCase(Chars(q.Title)), ToLowerCase(Chars(term)))
    \/ Includes(ToLowerCase(Chars(q.Topics)), ToLowerCase(Chars(term)))

\* the sign of the comparator's result (NaN counts as 0, as Array.prototype.sort
\* takes it)
Comparator(a, b, cfg) ==
    IF cfg.key = "Frequency"
    THEN LET x == ParseFloat(Chars(a.Frequency))
             y == ParseFloat(Chars(b.Frequency))
             d == IF cfg.direction = "asc" THEN x.val - y.val ELSE y.val - x.val
         IN IF x.nan \/ y.nan THEN 0
            ELSE IF d < 0 THEN -1 ELSE IF d > 0 THEN 1 ELSE 0
    ELSE IF cfg.direction = "asc"
         THEN LocaleCompare(Chars(a[cfg.key]), Chars(b[cfg.key]))
         ELSE LocaleCompare(Chars(b[cfg.key]), Chars(a[cfg.key]))

\* q put into the sorted sequence s after every element it does not precede
Insert(s, q, cfg) ==
    LET before == {i \in DOMAIN s : Comparator(q, s[i], cfg) < 0}
        at == IF before = {} THEN Len(s) + 1
              ELSE CHOOSE i \in before : \A j \in before : i <= j
    IN SubSeq(s, 1, at - 1) \o <<q>> \o SubSeq(s, at, Len(s))

RECURSIVE SortBy(_, _)
\* Array.prototype.sort with the comparator: a stable insertion sort
SortBy(s, cfg) ==
    IF s = << >> THEN << >>
    ELSE Insert(SortBy(SubSeq(s, 1, Len(s) - 1), cfg), s[Len(s)], cfg)

\* faulty variant: the difficulty filter compares the normalized label
FilteredNormalized(qs, term, difficulty) ==
    LET searched == IF term # "" THEN SelectSeq(qs, LAMBDA q : MatchesSearch(q, term))
                    ELSE qs
    IN IF difficulty # "all"
       THEN SelectSeq(searched,
                      LAMBDA q : getNormalizedDifficulty(q.Difficulty) = difficulty)
       ELSE searched

\* the search filter and the difficulty filter of the effect
Filtered(qs, term, difficulty) ==
    LET searched == IF term # "" THEN SelectSeq(qs, LAMBDA q : MatchesSearch(q, term))
                    ELSE qs
    IN IF difficulty # "all"
       THEN SelectSeq(searched, LAMBDA q : q.Difficulty = difficulty)
       ELSE searched

\* the body of the filter/sort effect, for a comparator that orders the records
Derive(qs, term, difficulty, cfg) == SortBy(Filtered(qs, term, difficulty), cfg)

\* the comparator is a consistent comparator on the elements of s: equality is
\* an equivalence and the order is transitive (a NaN frequency among two
\* different numbers breaks it)
ConsistentComparator(s, cfg) ==
    \/ cfg.key # "Frequency"
    \/ \A i \in DOMAIN s : ~ParseFloat(Chars(s[i].Frequency)).nan
    \/ \A i, j \in DOMAIN s : Comparator(s[i], s[j], cfg) = 0

\* every order of the elements of s
Reorderings(s) == {[i \in DOMAIN s |-> s[p[i]]] : p \in Permutations(DOMAIN s)}

\* what Array.prototype.sort may leave: the stable sorted order, or, when the
\* comparator is not consistent, an order the engine chooses
SortOutcomes(s, cfg) ==
    IF ConsistentComparator(s, cfg) THEN {SortBy(s, cfg)} ELSE Reorderings(s)

\* what the filter/sort effect may set
DeriveOutcomes(qs, term, difficulty, cfg) ==
    SortOutcomes(Filtered(qs, term, difficulty), cfg)

----------------------------------------------------------------------------
(* The progress map *)

\* faulty variant: only the completed records are written
CompletedOnly(qs) ==
    LET done == SelectSeq(qs, LAMBDA q : Truthy(q.completed))
    IN FromPairs([i \in DOMAIN done |-> <<done[i].Title, done[i].completed>>])

RECURSIVE CompletedMap(_)
\* qs.reduce((acc, q) => ({...acc, [q.Title]: q.completed}), {})
CompletedMap(qs) ==
    IF qs = << >> THEN EmptyObject
    ELSE LET n == Len(qs)
         IN Put(CompletedMap(SubSeq(qs, 1, n - 1)), qs[n].Title, qs[n].completed)

\* faulty variant: the flag is looked up under the difficulty, not the title
MergeStatusWrongKey(rows, value) ==
    [i \in DOMAIN rows |->
        WithCompleted(rows[i], OrFalse(Index(value, rows[i].Difficulty)))]

\* the fields of the records but completed
Rows(qs) ==
    [i \in DOMAIN qs |->
        Row(qs[i].Title, qs[i].Difficulty, qs[i].Frequency, qs[i].Topics)]

\* rows.map(q => ({...q, completed: value[q.Title] || false})): the spread's
\* completed is overwritten, so rows are taken without it
MergeStatus(rows, value) ==
    [i \in DOMAIN rows |-> WithCompleted(rows[i], OrFalse(Index(value, rows[i].Title)))]

\* the map callback above raises a TypeError: it indexes null
MergeThrows(rows, value) == rows # << >> /\ IndexThrows(value)

\* localStorage.getItem('completedQuestions') || '{}'
StoredText == IF storage.kind = "absent" THEN EmptyObjectText ELSE storage

\* Math.round of num / den, for 0 <= num and 0 < den: halves go up
MathRound(num, den) == (2 * num + den) \div (2 * den)

\* faulty variant: the percentage is cut, not rounded
progressFloor(qs) ==
    IF Len(qs) > 0
    THEN (100 * Len(SelectSeq(qs, LAMBDA q : Truthy(q.completed)))) \div Len(qs)
    ELSE 0

\* the progress percentage of a render
progress(qs) ==
    IF Len(qs) > 0
    THEN MathRound(100 * Len(SelectSeq(qs, LAMBDA q : Truthy(q.completed))), Len(qs))
    ELSE 0

----------------------------------------------------------------------------
(* Files the user may pick for import, besides a file downloaded earlier *)

ObjectText(pairs, indent) == [kind |-> "object", pairs |-> pairs, indent |-> indent]
NullText == [kind |-> "null", pairs |-> << >>, indent |-> 0]
InvalidText == [kind |-> "invalid", pairs |-> << >>, indent |-> 0]

\* a map with a title that is no record's and values that are no booleans; a
\* map that repeats a key and lacks a title; a map as downloadProgress writes
\* it; the literal null; text that is no JSON
ImportFiles ==
    { ObjectText(<< <<"Ghost", JTrue>>, <<"Two Sum", JOne>>,
                    <<"Merge K Lists", JZero>> >>, 2),
      ObjectText(<< <<"Two Sum", JFalse>>, <<"Two Sum", JTrue>> >>, 0),
      ObjectText(<< <<"Two Sum", JTrue>>, <<"Merge K Lists", JFalse>> >>, 2),
      NullText,
      InvalidText }

\* e.target.files?.[0]: a file, or none when the dialog is cancelled
PickableFiles == ImportFiles \cup {Absent}

----------------------------------------------------------------------------
(* Initial state: first render of a first-ever visit *)

NoOp == [op |-> "none", arg |-> "", twice |-> FALSE]

Init ==
    /\ data \in Datasets
    /\ loadState = "mounting"
    /\ fetchCount = 0
    /\ parseCount = 0
    /\ questions = << >>
    /\ filteredQuestions = << >>
    /\ searchTerm = ""
    /\ difficultyFilter = "all"
    /\ sortConfig = [key |-> "Frequency", direction |-> "desc"]
    /\ effectPending = TRUE
    /\ storage = Absent
    /\ readers = {}
    /\ download = Absent
    /\ alertMsg = ""
    /\ last = NoOp

\* handlers run one at a time, after the effects of the last render, and not
\* while an alert dialog blocks the page
Idle == loadState # "mounting" /\ ~effectPending /\ alertMsg = ""

----------------------------------------------------------------------------
(* Startup load *)

\* the load effect on mount: issues the fetch
LoadEffect ==
    /\ loadState = "mounting"
    /\ loadState' = "fetching"
    /\ fetchCount' = fetchCount + 1
    /\ last' = [op |-> "mount", arg |-> "", twice |-> FALSE]
    /\ UNCHANGED <<data, parseCount, questions, filteredQuestions, searchTerm,
                   difficultyFilter, sortConfig, effectPending, storage, readers,
                   download, alertMsg>>

\* the fetch resolves and Papa.parse calls complete
FetchComplete ==
    /\ loadState = "fetching"
    /\ ~effectPending /\ alertMsg = ""
    /\ parseCount' = parseCount + 1
    /\ LET completedQuestions == JSONParse(StoredText)
       IN IF MergeThrows(data, completedQuestions)
          THEN /\ loadState' = "threw"
               /\ UNCHANGED <<questions, filteredQuestions, effectPending>>
          ELSE /\ loadState' = "loaded"
               /\ questions' = MergeStatus(data, completedQuestions)
               /\ filteredQuestions' = MergeStatus(data, completedQuestions)
               /\ effectPending' = TRUE
    /\ last' = [op |-> "load", arg |-> "", twice |-> FALSE]
    /\ UNCHANGED <<data, fetchCount, searchTerm, difficultyFilter, sortConfig,
                   storage, readers, download, alertMsg>>

\* faulty variant: the fetch rejects and the load effect is run again
FetchFailRetry ==
    /\ loadState = "fetching"
    /\ ~effectPending /\ alertMsg = ""
    /\ loadState' = "mounting"
    /\ last' = [op |-> "fetchFail", arg |-> "", twice |-> FALSE]
    /\ UNCHANGED <<data, fetchCount, parseCount, questions, filteredQuestions,
                   searchTerm, difficultyFilter, sortConfig, effectPending, storage,
                   readers, download, alertMsg>>

\* faulty variant: the rejection is caught and reported in an alert
FetchFailAlert ==
    /\ loadState = "fetching"
    /\ ~effectPending /\ alertMsg = ""
    /\ loadState' = "failed"
    /\ alertMsg' = "Failed to load questions."
    /\ last' = [op |-> "fetchFail", arg |-> "", twice |-> FALSE]
    /\ UNCHANGED <<data, fetchCount, parseCount, questions, filteredQuestions,
                   searchTerm, difficultyFilter, sortConfig, effectPending, storage,
                   readers, download>>

\* the fetch rejects: no handler, nothing is set
FetchFail ==
    /\ loadState = "fetching"
    /\ ~effectPending /\ alertMsg = ""
    /\ loadState' = "failed"
    /\ last' = [op |-> "fetchFail", arg |-> "", twice |-> FALSE]
    /\ UNCHANGED <<data, fetchCount, parseCount, questions, filteredQuestions,
                   searchTerm, difficultyFilter, sortConfig, effectPending, storage,
                   readers, download, alertMsg>>

\* the page is loaded anew: component state starts over, localStorage and the
\* downloaded file stay
Restart ==
    /\ alertMsg = ""
    /\ loadState' = "mounting"
    /\ fetchCount' = 0
    /\ parseCount' = 0
    /\ questions' = << >>
    /\ filteredQuestions' = << >>
    /\ searchTerm' = ""
    /\ difficultyFilter' = "all"
    /\ sortConfig' = [key |-> "Frequency", direction |-> "desc"]
    /\ effectPending' = TRUE
    /\ readers' = {}
    /\ last' = [op |-> "restart", arg |-> "", twice |-> FALSE]
    /\ UNCHANGED <<data, storage, download, alertMsg>>

----------------------------------------------------------------------------
(* The filter/sort effect *)

FilterEffect ==
    /\ effectPending
    /\ loadState # "mounting"
    /\ filteredQuestions' \in
          DeriveOutcomes(questions, searchTerm, difficultyFilter, sortConfig)
    /\ effectPending' = FALSE
    /\ UNCHANGED <<data, loadState, fetchCount, parseCount, questions, searchTerm,
                   difficultyFilter, sortConfig, storage, readers, download,
                   alertMsg, last>>

\* faulty variant: the direction flips whatever key is clicked
handleSortFlip(key) ==
    /\ Idle
    /\ sortConfig' =
          [key |-> key,
           direction |-> IF sortConfig.direction = "asc" THEN "desc" ELSE "asc"]
    /\ effectPending' = TRUE
    /\ last' = [op |-> "view", arg |-> "", twice |-> FALSE]
    /\ UNCHANGED <<data, loadState, fetchCount, parseCount, questions,
                   filteredQuestions, searchTerm, difficultyFilter, storage, readers,
                   download, alertMsg>>

\* faulty variant: the sort configuration is not a dependency of the effect
handleSortNoEffect(key) ==
    /\ Idle
    /\ sortConfig' =
          [key |-> key,
           direction |-> IF sortConfig.key = key /\ sortConfig.direction = "asc"
                         THEN "desc" ELSE "asc"]
    /\ last' = [op |-> "view", arg |-> "", twice |-> FALSE]
    /\ UNCHANGED <<data, loadState, fetchCount, parseCount, questions,
                   filteredQuestions, searchTerm, difficultyFilter, effectPending,
                   storage, readers, download, alertMsg>>

handleSort(key) ==
    /\ Idle
    /\ sortConfig' =
          [key |-> key,
           direction |-> IF sortConfig.key = key /\ sortConfig.direction = "asc"
                         THEN "desc" ELSE "asc"]
    /\ effectPending' = TRUE
    /\ last' = [op |-> "view", arg |-> "", twice |-> FALSE]
    /\ UNCHANGED <<data, loadState, fetchCount, parseCount, questions,
                   filteredQuestions, searchTerm, difficultyFilter, storage, readers,
                   download, alertMsg>>

\* onChange of the difficulty select
setDifficultyFilter(value) ==
    /\ Idle
    /\ value # difficultyFilter
    /\ difficultyFilter' = value
    /\ effectPending' = TRUE
    /\ last' = [op |-> "view", arg |-> "", twice |-> FALSE]
    /\ UNCHANGED <<data, loadState, fetchCount, parseCount, questions,
                   filteredQuestions, searchTerm, sortConfig, storage, readers,
                   download, alertMsg>>

----------------------------------------------------------------------------
(* Progress handlers *)

\* faulty variant: the matching records are marked completed, not flipped
ToggledSetTrue(qs, title) ==
    [i \in DOMAIN qs |->
        IF qs[i].Title = title THEN WithCompleted(qs[i], JTrue) ELSE qs[i]]

\* faulty variant: only the first matching record is flipped
ToggledFirst(qs, title) ==
    [i \in DOMAIN qs |->
        IF qs[i].Title = title /\ \A j \in 1..(i - 1) : qs[j].Title # title
        THEN WithCompleted(qs[i], Not(qs[i].completed))
        ELSE qs[i]]

\* questions.map(q => q.Title === title ? {...q, completed: !q.completed} : q)
Toggled(qs, title) ==
    [i \in DOMAIN qs |->
        IF qs[i].Title = title THEN WithCompleted(qs[i], Not(qs[i].completed))
        ELSE qs[i]]

\* JSON.stringify(qs.reduce(...)): the text toggleQuestion stores
PersistedText(qs) == JSONStringify(ObjectValue(CompletedMap(qs)), 0)

\* faulty variant: the toggled title is written into the stored map, the rest of it kept
toggleQuestionMerge(title) ==
    /\ Idle
    /\ title \in Titles(filteredQuestions)
    /\ LET updatedQuestions == Toggled(questions, title)
           flag == Get(CompletedMap(updatedQuestions), title)
       IN /\ questions' = updatedQuestions
          /\ storage' = JSONStringify(
                ObjectValue(Put(JSONParse(StoredText).pairs, title, flag)), 0)
    /\ effectPending' = TRUE
    /\ last' = [op |-> "toggle", arg |-> title,
                twice |-> last.op = "toggle" /\ last.arg = title]
    /\ UNCHANGED <<data, loadState, fetchCount, parseCount, filteredQuestions,
                   searchTerm, difficultyFilter, sortConfig, readers, download,
                   alertMsg>>

\* faulty variant: the slot is written from the records before the flip
toggleQuestionPersistOld(title) ==
    /\ Idle
    /\ title \in Titles(filteredQuestions)
    /\ questions' = Toggled(questions, title)
    /\ storage' = PersistedText(questions)
    /\ effectPending' = TRUE
    /\ last' = [op |-> "toggle", arg |-> title,
                twice |-> last.op = "toggle" /\ last.arg = title]
    /\ UNCHANGED <<data, loadState, fetchCount, parseCount, filteredQuestions,
                   searchTerm, difficultyFilter, sortConfig, readers, download,
                   alertMsg>>

\* the checkbox of a displayed row
toggleQuestion(title) ==
    /\ Idle
    /\ title \in Titles(filteredQuestions)
    /\ LET updatedQuestions == Toggled(questions, title)
       IN /\ questions' = updatedQuestions
          /\ storage' = PersistedText(updatedQuestions)
    /\ effectPending' = TRUE
    /\ last' = [op |-> "toggle", arg |-> title,
                twice |-> last.op = "toggle" /\ last.arg = title]
    /\ UNCHANGED <<data, loadState, fetchCount, parseCount, filteredQuestions,
                   searchTerm, difficultyFilter, sortConfig, readers, download,
                   alertMsg>>

\* faulty variant: the slot is overwritten with an empty map, not removed
resetProgressEmptyMap ==
    /\ Idle
    /\ questions' = [i \in DOMAIN questions |-> WithCompleted(questions[i], JFalse)]
    /\ storage' = EmptyObjectText
    /\ effectPending' = TRUE
    /\ last' = [op |-> "reset", arg |-> "", twice |-> FALSE]
    /\ UNCHANGED <<data, loadState, fetchCount, parseCount, filteredQuestions,
                   searchTerm, difficultyFilter, sortConfig, readers, download,
                   alertMsg>>

resetProgress ==
    /\ Idle
    /\ questions' = [i \in DOMAIN questions |-> WithCompleted(questions[i], JFalse)]
    /\ storage' = Absent
    /\ effectPending' = TRUE
    /\ last' = [op |-> "reset", arg |-> "", twice |-> FALSE]
    /\ UNCHANGED <<data, loadState, fetchCount, parseCount, filteredQuestions,
                   searchTerm, difficultyFilter, sortConfig, readers, download,
                   alertMsg>>

\* faulty variant: the stored map is serialized, not the records'
ExportStored(qs) == JSONStringify(JSONParse(StoredText), 2)

\* the content of the file downloadProgress offers
ExportText(qs) == JSONStringify(ObjectValue(CompletedMap(qs)), 2)

downloadProgress ==
    /\ Idle
    /\ download' = ExportText(questions)
    /\ last' = [op |-> "export", arg |-> "", twice |-> FALSE]
    /\ UNCHANGED <<data, loadState, fetchCount, parseCount, questions,
                   filteredQuestions, searchTerm, difficultyFilter, sortConfig,
                   effectPending, storage, readers, alertMsg>>

\* onChange of the file input: without a file it returns; with one it starts a
\* FileReader whose onload closes over this render's questions (held as rows:
\* onload overwrites every completed)
importProgress(file) ==
    /\ Idle
    /\ IF file.kind = "absent"
       THEN UNCHANGED <<readers, last>>
       ELSE /\ Cardinality(readers) < MaxReaders
            /\ readers' = readers \cup {[file |-> file, questions |-> Rows(questions)]}
            /\ last' = [op |-> "pick", arg |-> "", twice |-> FALSE]
    /\ UNCHANGED <<data, loadState, fetchCount, parseCount, questions,
                   filteredQuestions, searchTerm, difficultyFilter, sortConfig,
                   effectPending, storage, download, alertMsg>>

\* faulty variant: the parsed content is stored before the records are mapped
readerOnloadStoreFirst(r) ==
    /\ Idle
    /\ r \in readers
    /\ readers' = readers \ {r}
    /\ LET imported == JSONParse(r.file)
       IN /\ storage' = IF imported.ok THEN JSONStringify(imported, 0) ELSE storage
          /\ IF ~imported.ok \/ MergeThrows(r.questions, imported)
             THEN /\ alertMsg' = "Invalid progress file."
                  /\ last' = [op |-> "importFailed", arg |-> "", twice |-> FALSE]
                  /\ UNCHANGED <<questions, effectPending>>
             ELSE /\ questions' = MergeStatus(r.questions, imported)
                  /\ effectPending' = TRUE
                  /\ last' = [op |-> "imported", arg |-> "", twice |-> FALSE]
                  /\ UNCHANGED alertMsg
    /\ UNCHANGED <<data, loadState, fetchCount, parseCount, filteredQuestions,
                   searchTerm, difficultyFilter, sortConfig, download>>

\* reader.onload
readerOnload(r) ==
    /\ Idle
    /\ r \in readers
    /\ readers' = readers \ {r}
    /\ LET imported == JSONParse(r.file)
       IN IF ~imported.ok \/ MergeThrows(r.questions, imported)
          THEN /\ alertMsg' = "Invalid progress file."
               /\ last' = [op |-> "importFailed", arg |-> "", twice |-> FALSE]
               /\ UNCHANGED <<questions, storage, effectPending>>
          ELSE /\ questions' = MergeStatus(r.questions, imported)
               /\ storage' = JSONStringify(imported, 0)
               /\ effectPending' = TRUE
               /\ last' = [op |-> "imported", arg |-> "", twice |-> FALSE]
               /\ UNCHANGED alertMsg
    /\ UNCHANGED <<data, loadState, fetchCount, parseCount, filteredQuestions,
                   searchTerm, difficultyFilter, sortConfig, download>>

\* the user closes the alert dialog
DismissAlert ==
    /\ alertMsg # ""
    /\ alertMsg' = ""
    /\ UNCHANGED <<data, loadState, fetchCount, parseCount, questions,
                   filteredQuestions, searchTerm, difficultyFilter, sortConfig,
                   effectPending, storage, readers, download, last>>

----------------------------------------------------------------------------

Next ==
    \/ LoadEffect
    \/ FetchComplete
    \/ FetchFail
    \/ Restart
    \/ FilterEffect
    \/ \E key \in SortKeys : handleSort(key)
    \/ \E value \in DifficultyPicks : setDifficultyFilter(value)
    \/ \E title \in Titles(data) : toggleQuestion(title)
    \/ resetProgress
    \/ downloadProgress
    \/ \E file \in PickableFiles : importProgress(file)
    \/ \E r \in readers : readerOnload(r)
    \/ DismissAlert

Spec == Init /\ [][Next]_vars

----------------------------------------------------------------------------
(* The component with its effects scheduled, for the recomputation of the   *)
(* displayed set: every step that changes an input of the derivation, on    *)
(* the three-record dataset and one import file.                            *)

\* the file the user imports in this specification
LiveFile == ObjectText(<< <<"Ghost", JTrue>>, <<"Two Sum", JOne>>,
                          <<"Merge K Lists", JZero>> >>, 2)

\* the dataset of this specification: a title twice, a difficulty in lower
\* case, a frequency that is no number
LiveDataset ==
    << Row("Merge K Lists", "hard", "42.1", "Heap"),
       Row("Two Sum", "Easy", "85.5", "Array"),
       Row("Two Sum", "Medium", "N/A", "Array") >>

LiveInit ==
    /\ data = LiveDataset
    /\ loadState = "mounting"
    /\ fetchCount = 0
    /\ parseCount = 0
    /\ questions = << >>
    /\ filteredQuestions = << >>
    /\ searchTerm = ""
    /\ difficultyFilter = "all"
    /\ sortConfig = [key |-> "Frequency", direction |-> "desc"]
    /\ effectPending = TRUE
    /\ storage = Absent
    /\ readers = {}
    /\ download = Absent
    /\ alertMsg = ""
    /\ last = NoOp

LiveNext ==
    \/ LoadEffect
    \/ FetchComplete
    \/ FetchFail
    \/ Restart
    \/ FilterEffect
    \/ \E key \in SortKeys : handleSort(key)
    \/ \E value \in DifficultyPicks : setDifficultyFilter(value)
    \/ \E title \in Titles(data) : toggleQuestion(title)
    \/ resetProgress
    \/ importProgress(LiveFile)
    \/ \E r \in readers : readerOnload(r)

\* the filter/sort effect is due: what ENABLED FilterEffect comes to
EffectScheduled == effectPending /\ loadState # "mounting"

\* effects run after the render that scheduled them: the load effect once the
\* component has mounted, the filter/sort effect whenever a render has left it
\* due (a reload may come first, but not every time).  The second is strong
\* fairness of FilterEffect, SF_vars(FilterEffect), with the enabling
\* condition written out.
LiveSpec ==
    /\ LiveInit /\ [][LiveNext]_vars
    /\ WF_vars(LoadEffect)
    /\ []<>EffectScheduled => []<><<FilterEffect>>_vars

----------------------------------------------------------------------------
(* The filter/sort effect on its own: a loaded component whose record set,  *)
(* search term, difficulty filter and sort configuration are drawn from     *)
(* small sets, and whose only steps are the effect and the view controls.   *)

\* the search terms the effect is run on
SearchTerms == {"", "sum", "ARRAY", "Heap"}

\* the record sets the effect is run on: the datasets, one whose last
\* frequency is no number, one whose frequencies are all numbers, two of them
\* equal, and one whose non-numeric frequency sits between two numbers
FilterDatasets ==
    Datasets \cup
    { LiveDataset,
      << Row("Merge K Lists", "Hard", "42.1", "Heap"),
         Row("Two Sum", "Easy", "85.5", "Array"),
         Row("Two Sum", "Medium", "60.0", "Array"),
         Row("Heap", "hard", "42.1", "Array") >>,
      << Row("Two Sum", "Easy", "85.5", "Array"),
         Row("Heap", "Medium", "N/A", "Heap"),
         Row("Merge K Lists", "Hard", "42.1", "Heap") >> }

FilterInit ==
    /\ data \in FilterDatasets
    /\ loadState = "loaded"
    /\ fetchCount = 1
    /\ parseCount = 1
    /\ questions = [i \in DOMAIN data |-> WithCompleted(data[i], JFalse)]
    /\ filteredQuestions = questions
    /\ searchTerm \in SearchTerms
    /\ difficultyFilter \in DifficultyOptions
    /\ sortConfig \in [key : SortKeys, direction : {"asc", "desc"}]
    /\ effectPending = TRUE
    /\ storage = Absent
    /\ readers = {}
    /\ download = Absent
    /\ alertMsg = ""
    /\ last = NoOp

FilterNext ==
    \/ FilterEffect
    \/ \E key \in SortKeys : handleSort(key)
    \/ \E value \in DifficultyOptions : setDifficultyFilter(value)

FilterSpec == FilterInit /\ [][FilterNext]_vars

----------------------------------------------------------------------------
(* The sessions in which the fetch of the CSV resource fails: no record is  *)
(* ever loaded, so no row is there to toggle.                               *)

FailNext ==
    \/ LoadEffect
    \/ FetchFail
    \/ Restart
    \/ FilterEffect
    \/ \E key \in SortKeys : handleSort(key)
    \/ \E value \in DifficultyOptions : setDifficultyFilter(value)
    \/ resetProgress
    \/ downloadProgress
    \/ \E file \in PickableFiles : importProgress(file)
    \/ \E r \in readers : readerOnload(r)
    \/ DismissAlert

FailSpec == Init /\ [][FailNext]_vars

----------------------------------------------------------------------------
(* Properties *)

\* the members of an object text, as a set
MapOf(text) ==
    LET v == JSONParse(text) IN {<<v.pairs[i][1], v.pairs[i][2]>> : i \in DOMAIN v.pairs}

\* {title -> completed} over the records, as a set
FlagMap(qs) == {<<qs[i].Title, qs[i].completed>> : i \in DOMAIN qs}

IsBoolean(v) == v \in {JTrue, JFalse}

Loaded == loadState = "loaded" /\ Idle

\* C1 as stated: after the load, toggling a record's title twice gives every
\* record its flag back and leaves the slot (present or absent, and its
\* members) as it was before the two toggles.
C1_TwiceRestoresSlot ==
    Loaded =>
        \A t \in Titles(questions) :
            LET q2 == Toggled(Toggled(questions, t), t)
                s2 == PersistedText(q2)
            IN /\ \A i \in DOMAIN questions : q2[i].completed = questions[i].completed
               /\ s2.kind = storage.kind
               /\ MapOf(s2) = MapOf(storage)

\* C1 amended: after the load, toggling a record's title twice leaves every
\* record with the truth value of its flag, and with the flag itself when it
\* is a boolean; records of other titles are untouched; the slot then holds
\* exactly {title -> completed} over the full record set, whatever it held
\* before.
C1_TwiceRestoresFlags ==
    Loaded =>
        \A t \in Titles(questions) :
            LET q2 == Toggled(Toggled(questions, t), t)
                s2 == PersistedText(q2)
            IN /\ DOMAIN q2 = DOMAIN questions
               /\ \A i \in DOMAIN questions :
                    /\ Truthy(q2[i].completed) = Truthy(questions[i].completed)
                    /\ IsBoolean(questions[i].completed) => q2[i] = questions[i]
                    /\ questions[i].Title # t => q2[i] = questions[i]
               /\ s2.kind = "object"
               /\ MapOf(s2) = FlagMap(q2)
               /\ Keys(JSONParse(s2).pairs) = Titles(questions)

\* a title has just been toggled twice in succession
C1_Witness ==
    /\ Loaded
    /\ last.op = "toggle" /\ last.twice
    /\ last.arg \in Titles(filteredQuestions)

\* C2 as stated: what export() writes is the persisted map, member for member
\* (an absent slot counting as the empty map).
C2_ExportIsPersisted ==
    last.op = "export" => MapOf(download) = MapOf(StoredText)

\* C2 amended: what export() writes is the map recomputed from the full record
\* set: one member per title of the set, valued with that record's completed
\* flag, whatever the slot holds.
C2_ExportIsRecomputed ==
    last.op = "export" =>
        /\ download.kind = "object"
        /\ Keys(JSONParse(download).pairs) = Titles(questions)
        /\ \A i \in DOMAIN questions :
              Get(JSONParse(download).pairs, questions[i].Title) = questions[i].completed

\* an export of loaded records that differs from the slot
C2_Witness ==
    /\ last.op = "export"
    /\ questions # << >>
    /\ MapOf(download) # MapOf(storage)

\* a load that found no saved progress, and no handler since
FreshLoad == Loaded /\ last.op = "load" /\ storage = Absent

\* C3 as stated: from a fresh load with no saved progress, toggling a record
\* sets its flag to true and persists exactly {title: true}.
C3_PersistsOnlyToggled ==
    [][\A t \in Titles(data) :
          (FreshLoad /\ toggleQuestion(t)) =>
              /\ \A i \in DOMAIN questions :
                    questions[i].Title = t => questions'[i].completed = JTrue
              /\ storage'.kind = "object"
              /\ MapOf(storage') = {<<t, JTrue>>}]_vars

\* C3 amended: from a fresh load with no saved progress, toggling a record sets
\* its flag to true and persists the map with true under the toggled title and
\* false under every other title of the record set.
C3_PersistsAllTitles ==
    [][\A t \in Titles(data) :
          (FreshLoad /\ toggleQuestion(t)) =>
              /\ \A i \in DOMAIN questions :
                    questions[i].Title = t => questions'[i].completed = JTrue
              /\ storage'.kind = "object"
              /\ MapOf(storage') =
                    {<<u, IF u = t THEN JTrue ELSE JFalse>> : u \in Titles(questions)}]_vars

\* "Two Sum" toggled in the two-record dataset, first thing after a fresh load
C3_Witness ==
    /\ last = [op |-> "toggle", arg |-> "Two Sum", twice |-> FALSE]
    /\ Len(data) = 2
    /\ download = Absent
    /\ MapOf(storage) = {<<"Two Sum", JTrue>>, <<"Merge K Lists", JFalse>>}
    /\ \A i \in DOMAIN questions :
          questions[i].completed = (IF questions[i].Title = "Two Sum" THEN JTrue ELSE JFalse)

\* the first record with the title
FirstMatch(qs, t) ==
    CHOOSE i \in DOMAIN qs : qs[i].Title = t /\ \A j \in 1..(i - 1) : qs[j].Title # t

\* C4 as stated: toggle flips the first record with the title and no other;
\* every other record, a later one with the same title too, is unchanged, and
\* so are the order and the length of the record set.
C4_FlipsFirstMatch ==
    [][\A t \in Titles(data) :
          toggleQuestion(t) =>
              /\ Rows(questions') = Rows(questions)
              /\ \A i \in DOMAIN questions :
                    IF i = FirstMatch(questions, t)
                    THEN questions'[i].completed = Not(questions[i].completed)
                    ELSE questions'[i] = questions[i]]_vars

\* C4 amended: toggle flips every record whose title is the identifier; every
\* record with another title is unchanged, and so are the order, the length
\* and the other fields of the record set.
C4_FlipsEveryMatch ==
    [][\A t \in Titles(data) :
          toggleQuestion(t) =>
              /\ Rows(questions') = Rows(questions)
              /\ \A i \in DOMAIN questions :
                    IF questions[i].Title = t
                    THEN questions'[i].completed = Not(questions[i].completed)
                    ELSE questions'[i] = questions[i]]_vars

\* a title that two records carry has been toggled
C4_Witness ==
    /\ last.op = "toggle"
    /\ Cardinality({i \in DOMAIN questions : questions[i].Title = last.arg}) = 2
    /\ \A i \in DOMAIN questions :
          questions[i].Title = last.arg => questions[i].completed = JTrue

\* C5: right after a toggle the slot is an object whose keys are the titles of
\* the full record set and whose value under each record's title is that
\* record's completed flag.
C5_SlotMirrorsRecords ==
    last.op = "toggle" =>
        /\ storage.kind = "object"
        /\ Keys(JSONParse(storage).pairs) = Titles(questions)
        /\ \A i \in DOMAIN questions :
              Get(JSONParse(storage).pairs, questions[i].Title) = questions[i].completed

\* a toggle after an import whose file had a foreign title and a number for a flag
C5_Witness ==
    /\ last.op = "toggle"
    /\ \E i \in DOMAIN questions : questions[i].completed = JOne
    /\ \E i \in DOMAIN questions : questions[i].completed = JTrue

\* C6: after the load, export() followed by import() of the exported file
\* leaves every record as it was, leaves the slot holding the exported map,
\* and a second export writes the same file again.
C6_RoundTrip ==
    Loaded =>
        LET exported == ExportText(questions)
            imported == JSONParse(exported)
            updatedQuestions == MergeStatus(Rows(questions), imported)
            stored == JSONStringify(imported, 0)
        IN /\ imported.ok /\ ~MergeThrows(Rows(questions), imported)
           /\ updatedQuestions = questions
           /\ stored.kind = "object"
           /\ MapOf(stored) = MapOf(exported)
           /\ MapOf(exported) = FlagMap(questions)
           /\ ExportText(updatedQuestions) = exported

\* a downloaded file has been imported: the slot holds its map and the records
\* are as the file says
C6_Witness ==
    /\ Loaded
    /\ last.op = "imported"
    /\ download.kind = "object"
    /\ MapOf(storage) = MapOf(download)
    /\ ExportText(questions) = download
    /\ \E i \in DOMAIN questions : questions[i].completed = JTrue

\* what a first-ever load yields
FirstLoad == [i \in DOMAIN data |-> WithCompleted(data[i], JFalse)]

\* C7: after reset() every record has completed = false and the slot is absent;
\* a load that finds the slot absent completes with completed = false for
\* every record, the records of a first-ever load.
C7_ResetRemovesSlot ==
    /\ last.op = "reset" =>
          /\ \A i \in DOMAIN questions : questions[i].completed = JFalse
          /\ storage = Absent
          /\ MergeStatus(data, JSONParse(StoredText)) = FirstLoad
    /\ (last.op = "load" /\ storage = Absent) =>
          /\ loadState = "loaded"
          /\ questions = FirstLoad

\* a load that found the slot absent although progress had been exported before
C7_Witness ==
    /\ last.op = "load"
    /\ storage = Absent
    /\ \E i \in DOMAIN download.pairs : Truthy(download.pairs[i][2])

\* C8, in the cases where the file parses to an object and holds a boolean or
\* nothing under a record's title: when the import succeeds, every record of
\* the current full record set is still there with the file's value (false
\* when the title is missing) as its flag, and the slot holds the parsed
\* content, foreign titles included.
C8_ImportSetsCurrentRecords ==
    [][\A r \in readers :
          (readerOnload(r) /\ r.file.kind = "object") =>
              /\ \A i \in DOMAIN questions :
                    LET v == Get(JSONParse(r.file).pairs, questions[i].Title)
                    IN (IsBoolean(v) \/ v = Undefined) =>
                          /\ i \in DOMAIN questions'
                          /\ questions'[i].Title = questions[i].Title
                          /\ questions'[i].completed = (IF v = Undefined THEN JFalse ELSE v)
              /\ storage'.kind = "object"
              /\ MapOf(storage') = MapOf(r.file)]_vars

\* the import fails: the text is no JSON, or it is null and there are records
\* to index it with
ImportFails(r) ==
    \/ r.file.kind = "invalid"
    \/ r.file.kind = "null" /\ r.questions # << >>

OneFetchOneParse ==
    /\ fetchCount \in 0..1
    /\ parseCount \in 0..fetchCount
    /\ loadState = "mounting" => fetchCount = 0
    /\ loadState \in {"fetching", "failed"} => fetchCount = 1 /\ parseCount = 0
    /\ loadState \in {"loaded", "threw"} => fetchCount = 1 /\ parseCount = 1

\* C10 as stated: when the load has completed each record's flag is the value
\* stored under its title, false when the title or the slot is absent; the
\* fetch and the parse happen once per start.
C10_LoadReadsStoredValue ==
    /\ (last.op = "load" /\ loadState = "loaded") =>
          /\ Rows(questions) = data
          /\ \A i \in DOMAIN questions :
                LET v == Get(JSONParse(StoredText).pairs, questions[i].Title)
                IN questions[i].completed = (IF v = Undefined THEN JFalse ELSE v)
    /\ OneFetchOneParse

\* C10 amended: when the load has completed each record's flag is the value
\* stored under its title if that value is truthy, and false otherwise (a
\* falsy value, no such title, no slot); the fetch and the parse happen once
\* per start.
C10_LoadReadsTruthyValue ==
    /\ (last.op = "load" /\ loadState = "loaded") =>
          /\ Rows(questions) = data
          /\ \A i \in DOMAIN questions :
                LET v == Get(JSONParse(StoredText).pairs, questions[i].Title)
                IN questions[i].completed = (IF Truthy(v) THEN v ELSE JFalse)
    /\ OneFetchOneParse

\* a load that found a number under each title: one truthy, one falsy
C10_Witness ==
    /\ last.op = "load" /\ loadState = "loaded"
    /\ \E i \in DOMAIN questions :
          /\ Get(JSONParse(StoredText).pairs, questions[i].Title) = JZero
          /\ questions[i].completed = JFalse
    /\ \E i \in DOMAIN questions : questions[i].completed = JOne

----------------------------------------------------------------------------
(* Properties of the filter/sort effect *)

\* the lower-case form of one character
Fold(c) == IF IsIn(UpperLetters, c) THEN LowerLetters[IndexOf(UpperLetters, c)] ELSE c

\* needle occurs in hay, letter case ignored
Occurs(needle, hay) ==
    \E i \in 0..(Len(hay) - Len(needle)) :
        \A k \in 1..Len(needle) : Fold(hay[i + k]) = Fold(needle[k])

\* the search term occurs in the record's title or topics
PassesSearch(q) ==
    \/ Occurs(Chars(searchTerm), Chars(q.Title))
    \/ Occurs(Chars(searchTerm), Chars(q.Topics))

\* how many times q is in s
Count(s, q) == Cardinality({i \in DOMAIN s : s[i] = q})

\* the displayed set holds the records of the full set that `keep` accepts,
\* each as many times as the full set holds it, and nothing else
DisplaysExactly(keep(_)) ==
    /\ \A i \in DOMAIN questions :
          Count(filteredQuestions, questions[i]) =
             (IF keep(questions[i]) THEN Count(questions, questions[i]) ELSE 0)
    /\ \A j \in DOMAIN filteredQuestions :
          \E i \in DOMAIN questions : questions[i] = filteredQuestions[j]

Derived == loadState = "loaded" /\ ~effectPending

\* C11: with the difficulty filter at "all", a record is displayed exactly
\* when the search term occurs, letter case ignored, in its title or in its
\* topics; the empty term keeps every record.
C11_SearchKeepsMatches ==
    (Derived /\ difficultyFilter = "all") =>
        /\ DisplaysExactly(PassesSearch)
        /\ searchTerm = "" => Len(filteredQuestions) = Len(questions)

C11_Witness ==
    /\ Derived
    /\ difficultyFilter = "all"
    /\ searchTerm = "ARRAY"
    /\ Len(filteredQuestions) > 0
    /\ Len(filteredQuestions) < Len(questions)

PassesBoth(q) ==
    PassesSearch(q) /\ (difficultyFilter = "all" \/ q.Difficulty = difficultyFilter)

\* C12: with a difficulty filter d other than "all", every displayed record has
\* its raw Difficulty equal to d and every record that passes the search and
\* has Difficulty d is displayed; with "all" the difficulty removes nothing.
C12_DifficultyKeepsEqual ==
    Derived =>
        /\ DisplaysExactly(PassesBoth)
        /\ difficultyFilter # "all" =>
              \A j \in DOMAIN filteredQuestions :
                  filteredQuestions[j].Difficulty = difficultyFilter

C12_Witness ==
    /\ Derived
    /\ difficultyFilter = "Hard"
    /\ \E i \in DOMAIN questions : questions[i].Difficulty = "hard"
    /\ \E j \in DOMAIN filteredQuestions : filteredQuestions[j].Difficulty = "Hard"

Numeric(q) == ~ParseFloat(Chars(q.Frequency)).nan

FrequencyOf(q) == ParseFloat(Chars(q.Frequency)).val

\* q comes before r in s
Precedes(s, q, r) == \E i, j \in DOMAIN s : i < j /\ s[i] = q /\ s[j] = r

\* what the effect may display under (Frequency, direction)
ByFrequency(direction) ==
    DeriveOutcomes(questions, searchTerm, difficultyFilter,
                   [key |-> "Frequency", direction |-> direction])

\* C13: among the records whose frequencies are numeric and distinct, the
\* order displayed under (Frequency, desc) puts the larger frequency first and
\* the order displayed under (Frequency, asc) is its exact reverse.
C13_FrequencyOrdersAreReverses ==
    (Derived /\ sortConfig.key = "Frequency") =>
        \A desc \in (IF sortConfig.direction = "desc" THEN {filteredQuestions}
                     ELSE ByFrequency("desc")) :
        \A asc \in (IF sortConfig.direction = "asc" THEN {filteredQuestions}
                    ELSE ByFrequency("asc")) :
            \A i, j \in DOMAIN desc :
                LET q == desc[i]
                    r == desc[j]
                IN (Numeric(q) /\ Numeric(r) /\ FrequencyOf(q) > FrequencyOf(r)) =>
                       /\ Precedes(desc, q, r) /\ ~Precedes(desc, r, q)
                       /\ Precedes(asc, r, q) /\ ~Precedes(asc, q, r)

----------------------------------------------------------------------------
(* Properties of the sort configuration *)

DefaultSort == [key |-> "Frequency", direction |-> "desc"]

Opposite(direction) == IF direction = "asc" THEN "desc" ELSE "asc"

\* C14: the sort configuration starts as (Frequency, desc); a sort intent on
\* the current key keeps the key and takes the opposite direction, a sort
\* intent on another key yields (that key, asc); within a session nothing but
\* a sort intent changes the configuration (a page reload starts a new session
\* with the initial configuration).
C14_SortIntent ==
    /\ sortConfig = DefaultSort
    /\ [][/\ \A key \in SortKeys :
               handleSort(key) =>
                  sortConfig' = (IF key = sortConfig.key
                                 THEN [key |-> key,
                                       direction |-> Opposite(sortConfig.direction)]
                                 ELSE [key |-> key, direction |-> "asc"])
          /\ Restart => sortConfig' = DefaultSort
          /\ sortConfig' # sortConfig =>
                 Restart \/ \E key \in SortKeys : handleSort(key)]_vars

C14_Witness ==
    /\ last.op = "view"
    /\ sortConfig = [key |-> "Title", direction |-> "desc"]
    /\ ~effectPending
    /\ Len(filteredQuestions) > 1

----------------------------------------------------------------------------
(* Properties of the interleavings of load, import and user actions *)

\* C15: once the startup load has completed, the full record set holds
\* exactly the rows of the parsed dataset, in their order and with their
\* fields, whatever event comes later (an import whose file was picked before
\* the load completed included).
C15_RecordsStayLoaded == loadState = "loaded" => Rows(questions) = data

----------------------------------------------------------------------------
(* Properties relating the records' flags and the persisted slot *)

\* the flag a startup load gives the title from the slot as it is now: the
\* value under the title when there is one that || keeps, false otherwise
FreshFlag(t) ==
    LET stored == {p \in MapOf(StoredText) : p[1] = t /\ Truthy(p[2])}
    IN IF stored = {} THEN JFalse ELSE (CHOOSE p \in stored : TRUE)[2]

C18_FlagsAreBooleans ==
    /\ \A i \in DOMAIN questions : IsBoolean(questions[i].completed)
    /\ last.op = "toggle" => \A p \in MapOf(storage) : IsBoolean(p[2])

----------------------------------------------------------------------------
(* Properties of the recomputation of the displayed set *)

\* shown is the filter-then-sort derivation of the inputs: the records of qs
\* that pass both filters, with their flags, in the comparator's order with
\* ties in the order of qs (in some order when the comparator does not order
\* them)
DerivedFrom(shown, qs, term, difficulty, cfg) ==
    LET keep(q) ==
            /\ \/ Occurs(Chars(term), Chars(q.Title))
               \/ Occurs(Chars(term), Chars(q.Topics))
            /\ difficulty = "all" \/ q.Difficulty = difficulty
    IN /\ \A i \in DOMAIN qs :
             Count(shown, qs[i]) = (IF keep(qs[i]) THEN Count(qs, qs[i]) ELSE 0)
       /\ \A j \in DOMAIN shown : \E i \in DOMAIN qs : qs[i] = shown[j]
       /\ ConsistentComparator(shown, cfg) =>
             \A i, j \in DOMAIN shown :
                 i < j =>
                    LET c == Comparator(shown[i], shown[j], cfg)
                    IN c <= 0 /\ (c = 0 => Precedes(qs, shown[i], shown[j]))

\* the inputs of the derivation
Inputs == <<questions, searchTerm, difficultyFilter, sortConfig>>

\* C17: after any change of the full record set, the search term, the
\* difficulty filter or the sort configuration, the displayed set is eventually
\* recomputed; once recomputed it is the filter-then-sort derivation of the
\* current inputs, and stays so until the next change of an input.
C17_DisplayFollowsInputs ==
    /\ [][~effectPending' =>
              DerivedFrom(filteredQuestions', questions', searchTerm',
                          difficultyFilter', sortConfig')]_vars
    /\ [][(~effectPending /\ Inputs' = Inputs) =>
              filteredQuestions' = filteredQuestions]_vars
    /\ [][Inputs' # Inputs => effectPending']_vars
    /\ effectPending ~> ~effectPending

\* the display after a toggle has been recomputed under a changed sort
C17_Witness ==
    /\ ~effectPending
    /\ sortConfig = [key |-> "Difficulty", direction |-> "asc"]
    /\ Len(filteredQuestions) = 3
    /\ filteredQuestions # questions
    /\ \E j \in DOMAIN filteredQuestions : filteredQuestions[j].completed = JTrue

----------------------------------------------------------------------------
(* Properties of a session whose startup fetch failed *)

\* C19: when the startup fetch fails nothing is reported and, for the rest of
\* the session, the record set and the displayed set are empty; reset, export,
\* import and the sort and difficulty controls stay enabled, and an export
\* then writes the empty map.
C19_FailedFetchKeepsRunning ==
    /\ last.op = "fetchFail" => (loadState = "failed" /\ alertMsg = "")
    /\ loadState = "failed" =>
          /\ questions = << >>
          /\ filteredQuestions = << >>
          /\ fetchCount = 1 /\ parseCount = 0
          /\ last.op = "export" => MapOf(download) = {}
          /\ Idle =>
                /\ ENABLED resetProgress
                /\ ENABLED downloadProgress
                /\ \A key \in SortKeys : ENABLED handleSort(key)
                /\ \A value \in DifficultyOptions \ {difficultyFilter} :
                      ENABLED setDifficultyFilter(value)
                /\ readers = {} => \A file \in PickableFiles : ENABLED importProgress(file)

\* an import has completed after the fetch failed
C19_Witness ==
    /\ loadState = "failed"
    /\ last.op = "imported"
    /\ storage.kind = "object"
    /\ download.kind = "object"
    /\ sortConfig.key = "Title"

----------------------------------------------------------------------------
(* Properties of the progress percentage *)

\* the records shown as completed
CompletedCount == Cardinality({i \in DOMAIN questions : Truthy(questions[i].completed)})

====
